---- MODULE Spec2Model ----
(***************************************************************************)
(* fac: the mods directory (ModManager, ZippedMod, UnpackedMod in          *)
(* fac/mods.py) and the install command (InstallCommand.run in             *)
(* fac/commands/install.py).                                               *)
(*                                                                         *)
(* A mod name is the sequence of its "_"-separated tokens, so that the     *)
(* glob patterns of Mod._find ("%s_%s.zip", "%s_%s/") match what the       *)
(* file system matches: <<"foo">> is a proper prefix of <<"foo","bar">>,   *)
(* as "foo_*" matches "foo_bar_1".  A version is a positive integer that   *)
(* stands for its place in the parse_version order; 0 stands for None.     *)
(***************************************************************************)
EXTENDS Integers, Sequences, FiniteSets, TLC

VARIABLES disk, mods_json, saved_json, last, fromEmpty,
          pc, args, reqs, req_i, to_install, inst_i, disk0, lookups, trace

vars == <<disk, mods_json, saved_json, last, fromEmpty,
          pc, args, reqs, req_i, to_install, inst_i, disk0, lookups, trace>>

runVars == <<pc, args, reqs, req_i, to_install, inst_i, disk0, lookups, trace>>

(***************************************************************************)
(* Bounds of the model.                                                    *)
(***************************************************************************)
\* records in the mods directory when the first operation starts
MaxStart == 2
\* requirements on one command line
MaxReqs == 2

(***************************************************************************)
(* Names, configuration and the remote catalog.                            *)
(***************************************************************************)
FOO == <<"foo">>
FOO_BAR == <<"foo", "bar">>
LIB == <<"lib">>
CORE == <<"core">>
BASE == <<"base">>
GHOST == <<"ghost">>
OPT == <<"opt">>

NoName == <<>>
NoVersion == 0

\* config.game_version_major: the label the releases' game_version is
\* compared with; config.game_version: the game's full version, which a
\* base dependency's specifier is evaluated on.
game_version_major == "1.1"
game_version == 2
hold == {LIB}

\* parse_requirement's result: name, optional ("?" prefix), specifier
Req(n, o, v) == [name |-> n, optional |-> FALSE, op |-> o, ver |-> v]
OptReq(n, o, v) == [name |-> n, optional |-> TRUE, op |-> o, ver |-> v]

\* version in spec (the specifier forms of the install command's help)
InSpecWrongGe(ver, req) ==
    CASE req.op = "any" -> TRUE
      [] req.op = "==" -> ver = req.ver
      [] req.op = ">=" -> ver > req.ver
      [] req.op = "<" -> ver < req.ver

InSpec(ver, req) ==
    CASE req.op = "any" -> TRUE
      [] req.op = "==" -> ver = req.ver
      [] req.op = ">=" -> ver >= req.ver
      [] req.op = "<" -> ver < req.ver

Release(n, v, gv, size, deps) ==
    [name |-> n, version |-> v, game_version |-> gv, file_size |-> size,
     dependencies |-> deps]

\* api.get(name).releases, in the order the catalog returns them
Catalog(n) ==
    CASE n = FOO ->
           << Release(FOO, 4, "1.2", 3, <<>>),
              Release(FOO, 3, "1.1", 3,
                      <<Req(CORE, "any", 0), Req(LIB, ">=", 3)>>),
              Release(FOO, 2, "1.1", 2,
                      <<Req(BASE, ">=", 1), OptReq(OPT, "any", 0),
                        Req(LIB, ">=", 2)>>),
              Release(FOO, 1, "1.1", 2,
                      <<Req(LIB, "<", 2), Req(CORE, "any", 0)>>) >>
      [] n = FOO_BAR ->
           << Release(FOO_BAR, 3, "1.1", 2, <<Req(BASE, ">=", 3)>>),
              Release(FOO_BAR, 2, "1.1", 2, <<Req(GHOST, "any", 0)>>),
              Release(FOO_BAR, 1, "1.1", 2, <<Req(BASE, ">=", 1)>>) >>
      [] n = LIB ->
           << Release(LIB, 3, "1.2", 2, <<>>),
              Release(LIB, 2, "1.1", 2, <<Req(CORE, "==", 1)>>),
              Release(LIB, 1, "1.1", 2, <<>>) >>
      [] n = CORE -> << Release(CORE, 2, "1.1", 2, <<>>),
                        Release(CORE, 1, "1.1", 2, <<>>) >>
      [] n = BASE -> << Release(BASE, 1, "1.1", 2, <<>>) >>
      [] OTHER -> <<>>

\* the names api.get knows; for any other it raises ModNotFoundError
CatalogNames == {FOO, FOO_BAR, LIB, CORE, BASE}

Range(s) == {s[i] : i \in 1..Len(s)}

AllReleases == UNION {Range(Catalog(n)) : n \in CatalogNames}

(***************************************************************************)
(* The mods directory: a set of valid mods, each a zip file (packed) or a  *)
(* directory named basename = name_version.                                *)
(***************************************************************************)
Mod(n, v, p) == [name |-> n, version |-> v, packed |-> p]

NoMod == Mod(NoName, NoVersion, FALSE)

\* "%s_%s" % (self.name, self.version), as tokens
Basename(m) == Append(m.name, ToString(m.version))

IsPrefix(s, t) == Len(s) <= Len(t) /\ SubSeq(t, 1, Len(s)) = s

\* a mutant of GlobMatch: the name is compared whole
GlobMatchExact(name, version, m) ==
    /\ name # NoName => m.name = name
    /\ version # NoVersion => m.version = version

\* glob(pattern % (name or '*', version or '*')) matching m's basename
GlobMatch(name, version, m) ==
    LET b == Basename(m)
    IN CASE name # NoName /\ version # NoVersion ->
              b = Append(name, ToString(version))
         [] name # NoName /\ version = NoVersion ->
              IsPrefix(name, b) /\ Len(b) > Len(name)
         [] name = NoName /\ version # NoVersion ->
              Len(b) >= 2 /\ b[Len(b)] = ToString(version)
         [] OTHER -> Len(b) >= 2

\* ZippedMod.find / UnpackedMod.find: the mods of one layout the glob yields
Find(d, packed, name, version) ==
    {m \in d : m.packed = packed /\ GlobMatch(name, version, m)}

\* get_mods yields the zipped mods, then the unpacked ones; within a layout
\* glob's order is the directory's, which is arbitrary.  The mods that can
\* come first:
FirstOfGetMods(d, name, version) ==
    IF Find(d, TRUE, name, version) # {} THEN Find(d, TRUE, name, version)
    ELSE Find(d, FALSE, name, version)

GetMods(d, name, version) ==
    Find(d, TRUE, name, version) \cup Find(d, FALSE, name, version)

\* get_mod: the first mod get_mods(name) yields whose name is name
GetMod(d, name) ==
    LET z == {m \in Find(d, TRUE, name, NoVersion) : m.name = name}
        u == {m \in Find(d, FALSE, name, NoVersion) : m.name = name}
    IN IF z # {} THEN z ELSE IF u # {} THEN u ELSE {NoMod}

\* info.json's factorio_version of a local mod: that of the release it was
\* installed from
InfoFactorioVersion(m) ==
    LET rs == {r \in AllReleases : r.name = m.name /\ r.version = m.version}
    IN IF rs = {} THEN "none" ELSE (CHOOSE r \in rs : TRUE).game_version

(***************************************************************************)
(* mod-list.json: for each name the "enabled" string of its entry, or      *)
(* "absent".  mods_json is the JSONFile in memory, saved_json the file.    *)
(***************************************************************************)
EnabledStr(enabled) == IF enabled THEN "true" ELSE "false"

\* enabled != mod.enabled, a bool compared with the entry's string
BoolDiffersFromStr(enabled, s) == TRUE

\* is_mod_enabled
IsModEnabled(mem, name) ==
    IF mem[name] # "absent" THEN mem[name] # "false" ELSE TRUE

\* set_mod_enabled.  For a name without an entry, mod is the dict literal
\* appended to the list, and mod.enabled raises AttributeError.
SetModEnabled(mem, saved, name, enabled) ==
    IF mem[name] = "absent"
    THEN [mods_json |-> [mem EXCEPT ![name] = ""], saved_json |-> saved,
          raised |-> TRUE, changed |-> FALSE]
    ELSE IF BoolDiffersFromStr(enabled, mem[name])
         THEN LET new == [mem EXCEPT ![name] = EnabledStr(enabled)]
              IN [mods_json |-> new, saved_json |-> new,
                  raised |-> FALSE, changed |-> TRUE]
         ELSE [mods_json |-> mem, saved_json |-> saved,
               raised |-> FALSE, changed |-> FALSE]

(***************************************************************************)
(* Operations on the mods directory.  Each yields the directory it leaves  *)
(* and whether it raised.                                                  *)
(***************************************************************************)
\* a mutant of ZippedUnpack: an existing directory is unpacked over
ZippedUnpackOver(d, m) ==
    [disk |-> (d \ {m}) \cup {Mod(m.name, m.version, FALSE)}, ok |-> TRUE]

\* ZippedMod.unpack: os.makedirs raises when the directory exists
ZippedUnpack(d, m) ==
    LET dir == Mod(m.name, m.version, FALSE)
    IN IF dir \in d THEN [disk |-> d, ok |-> FALSE]
       ELSE [disk |-> (d \ {m}) \cup {dir}, ok |-> TRUE]

\* UnpackedMod.pack: raises when the archive exists
UnpackedPack(d, m) ==
    LET zip == Mod(m.name, m.version, TRUE)
    IN IF zip \in d THEN [disk |-> d, ok |-> FALSE]
       ELSE [disk |-> (d \ {m}) \cup {zip}, ok |-> TRUE]

\* uninstall_mods: every mod get_mods(name, version) yields is removed
UninstallMods(d, name, version) == d \ GetMods(d, name, version)

\* a mutant of SizeMismatch: only a download that is too long is refused
SizeMismatchOnlyLonger(received, release) == received > release.file_size

\* len(data) != release.file_size
SizeMismatch(received, release) == received # release.file_size

\* installed_mod and (installed_mod.basename != mod.basename or
\*                    not installed_mod.packed)
RemovesPrior(installed_mod, mod) ==
    /\ installed_mod # NoMod
    /\ (Basename(installed_mod) # Basename(mod) \/ ~installed_mod.packed)

\* unpack after "if unpack is None: unpack = not installed_mod.packed"
UnpackDefault(unpack, installed_mod) ==
    IF installed_mod # NoMod /\ unpack = "None"
    THEN (IF installed_mod.packed THEN "False" ELSE "True")
    ELSE unpack

InstallResult(d, mem, saved, why) ==
    [disk |-> d, mods_json |-> mem, saved_json |-> saved, ok |-> why = "ok",
     why |-> why]

\* install_mod(release, enable, unpack), given the bytes received and the
\* mod next(self.get_mods(mod_name)) returned (NoMod on StopIteration)
InstallMod(d, mem, saved, release, enable, unpack, received, installed_mod) ==
    LET mod == Mod(release.name, release.version, TRUE)
        unpack1 == UnpackDefault(unpack, installed_mod)
        written == d \cup {mod}
        kept == IF RemovesPrior(installed_mod, mod)
                THEN written \ {installed_mod} ELSE written
        en == IF enable = "None"
              THEN [mods_json |-> mem, saved_json |-> saved, raised |-> FALSE]
              ELSE SetModEnabled(mem, saved, release.name, enable = "True")
        un == ZippedUnpack(kept, mod)
    IN IF SizeMismatch(received, release)
       THEN InstallResult(d, mem, saved, "size")
       ELSE IF en.raised
       THEN InstallResult(kept, en.mods_json, en.saved_json, "enable")
       ELSE IF unpack1 # "True"
       THEN InstallResult(kept, en.mods_json, en.saved_json, "ok")
       ELSE IF un.ok
       THEN InstallResult(un.disk, en.mods_json, en.saved_json, "ok")
       ELSE InstallResult(un.disk, en.mods_json, en.saved_json, "exists")

\* the mods next(self.get_mods(mod_name)) can return
InstalledModChoices(d, name) ==
    IF FirstOfGetMods(d, name, NoVersion) = {} THEN {NoMod}
    ELSE FirstOfGetMods(d, name, NoVersion)

(***************************************************************************)
(* The operations as a state machine: the calls a process makes on its     *)
(* ModManager, one after the other.  last records the call just made.      *)
(***************************************************************************)
TriState == {"None", "True", "False"}

\* the releases install_mod is called with: foo 2, foo 1 and foo_bar 1
InstallPool == {Catalog(FOO)[3], Catalog(FOO)[4], Catalog(FOO_BAR)[3]}

PoolMods == {Mod(r.name, r.version, p) : r \in InstallPool, p \in BOOLEAN}

\* no (name, version) pair is there both packed and unpacked
NoDuplicate(d) == \A m \in d : Mod(m.name, m.version, ~m.packed) \notin d

StartDisks == {d \in SUBSET PoolMods : Cardinality(d) <= MaxStart
                                        /\ NoDuplicate(d)}

NoEntries == [n \in CatalogNames |-> "absent"]

StartManifests == {[NoEntries EXCEPT ![FOO] = e] :
                     e \in {"absent", "true", "false"}}

NoArgs == [held |-> FALSE, reinstall |-> FALSE, downgrade |-> FALSE,
           no_deps |-> FALSE, unpack |-> "None"]

\* prior: whether next(self.get_mods(mod_name)) was packed, when there was one;
\* value and changed: the argument and the result of set_mod_enabled
NoCall == [op |-> "none", ok |-> TRUE, why |-> "ok", name |-> NoName,
           version |-> NoVersion, unpack |-> "None", prior |-> "none",
           size_ok |-> TRUE, value |-> FALSE, changed |-> FALSE]

Layout(m) == IF m = NoMod THEN "none"
             ELSE IF m.packed THEN "packed" ELSE "unpacked"

Idle ==
    /\ pc = "idle" /\ args = NoArgs /\ reqs = <<>> /\ req_i = 0
    /\ to_install = <<>> /\ inst_i = 0 /\ disk0 = {} /\ lookups = {}
    /\ trace = <<>>

Init ==
    /\ disk \in StartDisks
    /\ fromEmpty = (disk = {})
    /\ mods_json \in StartManifests
    /\ saved_json = mods_json
    /\ last = NoCall
    /\ Idle

\* a call of install_mod
Install ==
    \E release \in InstallPool, enable \in TriState, unpack \in TriState :
      \E received \in {release.file_size, release.file_size - 1},
         installed_mod \in InstalledModChoices(disk, release.name) :
        LET r == InstallMod(disk, mods_json, saved_json, release, enable,
                            unpack, received, installed_mod)
        IN /\ disk' = r.disk
           /\ mods_json' = r.mods_json
           /\ saved_json' = r.saved_json
           /\ last' = [op |-> "install", ok |-> r.ok, why |-> r.why,
                       name |-> release.name, version |-> release.version,
                       unpack |-> unpack, prior |-> Layout(installed_mod),
                       size_ok |-> received = release.file_size,
                       value |-> FALSE, changed |-> FALSE]
           /\ UNCHANGED <<fromEmpty, runVars>>

\* a call of uninstall_mods
Uninstall ==
    \E name \in {FOO, FOO_BAR}, version \in {NoVersion, 1, 2} :
      /\ disk' = UninstallMods(disk, name, version)
      /\ last' = [NoCall EXCEPT !.op = "uninstall", !.name = name,
                                !.version = version]
      /\ UNCHANGED <<mods_json, saved_json, fromEmpty, runVars>>

\* a call of pack on an unpacked mod of the directory
Pack ==
    \E m \in disk :
      /\ ~m.packed
      /\ LET r == UnpackedPack(disk, m)
         IN /\ disk' = r.disk
            /\ last' = [NoCall EXCEPT !.op = "pack", !.ok = r.ok,
                                      !.why = IF r.ok THEN "ok" ELSE "exists",
                                      !.name = m.name, !.version = m.version]
      /\ UNCHANGED <<mods_json, saved_json, fromEmpty, runVars>>

\* a call of unpack on a zipped mod of the directory
Unpack ==
    \E m \in disk :
      /\ m.packed
      /\ LET r == ZippedUnpack(disk, m)
         IN /\ disk' = r.disk
            /\ last' = [NoCall EXCEPT !.op = "unpack", !.ok = r.ok,
                                      !.why = IF r.ok THEN "ok" ELSE "exists",
                                      !.name = m.name, !.version = m.version]
      /\ UNCHANGED <<mods_json, saved_json, fromEmpty, runVars>>

\* a call of set_mod_enabled
SetEnabled ==
    \E name \in {FOO, FOO_BAR}, enabled \in BOOLEAN :
      LET r == SetModEnabled(mods_json, saved_json, name, enabled)
      IN /\ mods_json' = r.mods_json
         /\ saved_json' = r.saved_json
         /\ last' = [NoCall EXCEPT !.op = "enable", !.ok = ~r.raised,
                                   !.why = IF r.raised THEN "attribute"
                                           ELSE "ok",
                                   !.name = name, !.value = enabled,
                                   !.changed = r.changed]
         /\ UNCHANGED <<disk, fromEmpty, runVars>>

Next == Install \/ Uninstall \/ Pack \/ Unpack \/ SetEnabled

Spec == Init /\ [][Next]_vars

(***************************************************************************)
(* InstallCommand.run: the requirements are resolved one after the other   *)
(* into to_install, then to_install is installed release by release.       *)
(***************************************************************************)
\* a mutant of ResolveRemote: the releases' game_version is not compared
ResolveRemoteAnyGame(req) ==
    SelectSeq(Catalog(req.name), LAMBDA r : InSpec(r.version, req))

\* resolve_remote_requirement, for a name the catalog knows
ResolveRemote(req) ==
    SelectSeq(Catalog(req.name),
              LAMBDA r : InSpec(r.version, req)
                         /\ r.game_version = game_version_major)

\* get_installed_mods(name): the local mods of that name
GetInstalledMods(d, name) == {m \in d : m.name = name}

\* a mutant of ResolveLocal: the local mod's factorio_version is not compared
ResolveLocalAnyGame(d, req) ==
    {m \in GetInstalledMods(d, req.name) : InSpec(m.version, req)}

\* resolve_local_requirement
ResolveLocal(d, req) ==
    {m \in GetInstalledMods(d, req.name) :
        InSpec(m.version, req) /\ InfoFactorioVersion(m) = game_version_major}

\* an element of to_install: the release, and for the claims the requirement
\* that selected it, whether it is a dependency, and the index in
\* args.requirement of the requirement it was planned for
Entry(release, req, kind, top) ==
    [release |-> release, req |-> req, kind |-> kind, top |-> top]

\* a mutant of IsBaseDep: base is a mod like any other
IsBaseDepNever(depreq) == FALSE

\* depreq.name == 'base'
IsBaseDep(depreq) == depreq.name = BASE

\* the loop over deps (install.py:99-134) from deps[i] on; acc holds deps_ok,
\* deps_to_install and the requirements api.get was asked for
RECURSIVE ExpandDeps(_, _, _, _, _)
ExpandDeps(d, deps, i, top, acc) ==
    IF i > Len(deps) THEN acc
    ELSE LET depreq == deps[i]
         IN IF depreq.optional THEN ExpandDeps(d, deps, i + 1, top, acc)
            ELSE IF IsBaseDep(depreq)
            THEN (IF InSpec(game_version, depreq)
                  THEN ExpandDeps(d, deps, i + 1, top, acc)
                  ELSE [acc EXCEPT !.ok = FALSE])
            ELSE IF ResolveLocal(d, depreq) # {}
            THEN ExpandDeps(d, deps, i + 1, top, acc)
            ELSE LET asked == [acc EXCEPT !.looked = @ \cup {depreq}]
                 IN IF depreq.name \notin CatalogNames
                    THEN [asked EXCEPT !.ok = FALSE]
                    ELSE IF ResolveRemote(depreq) = <<>>
                    THEN [asked EXCEPT !.ok = FALSE]
                    ELSE ExpandDeps(d, deps, i + 1, top,
                           [asked EXCEPT !.add = Append(@,
                              Entry(ResolveRemote(depreq)[1], depreq,
                                    "dep", top))])

\* "already installed": not args.reinstall and release_ver == local_ver
StopsEqual(a, release, local_mod) ==
    local_mod # NoMod /\ ~a.reinstall /\ release.version = local_mod.version

\* "more recent installed": not args.downgrade and release_ver < local_ver
StopsOlder(a, release, local_mod) ==
    local_mod # NoMod /\ ~a.downgrade /\ release.version < local_mod.version

Outcome(why, chosen, add, looked) ==
    [why |-> why, chosen |-> chosen, add |-> add, looked |-> looked]

\* a mutant of TryCandidates: a candidate whose dependencies fail ends the
\* requirement
RECURSIVE TryCandidatesNoRetry(_, _, _, _, _, _, _)
TryCandidatesNoRetry(d, a, releases, j, local_mod, top, looked) ==
    IF j > Len(releases) THEN Outcome("nodeps", 0, <<>>, looked)
    ELSE IF StopsEqual(a, releases[j], local_mod)
    THEN Outcome("installed", 0, <<>>, looked)
    ELSE IF StopsOlder(a, releases[j], local_mod)
    THEN Outcome("newer", 0, <<>>, looked)
    ELSE LET deps == IF a.no_deps THEN <<>> ELSE releases[j].dependencies
             e == ExpandDeps(d, deps, 1, top,
                             [ok |-> TRUE, add |-> <<>>, looked |-> looked])
         IN IF e.ok THEN Outcome("ok", j, e.add, e.looked)
            ELSE Outcome("nodeps", 0, <<>>, e.looked)

\* a mutant of TryCandidates: a candidate of the local version, or an older
\* one, is passed over and the next candidate is tried
RECURSIVE TryCandidatesSkipOne(_, _, _, _, _, _, _)
TryCandidatesSkipOne(d, a, releases, j, local_mod, top, looked) ==
    IF j > Len(releases) THEN Outcome("nodeps", 0, <<>>, looked)
    ELSE IF StopsEqual(a, releases[j], local_mod)
            \/ StopsOlder(a, releases[j], local_mod)
    THEN TryCandidatesSkipOne(d, a, releases, j + 1, local_mod, top, looked)
    ELSE LET deps == IF a.no_deps THEN <<>> ELSE releases[j].dependencies
             e == ExpandDeps(d, deps, 1, top,
                             [ok |-> TRUE, add |-> <<>>, looked |-> looked])
         IN IF e.ok THEN Outcome("ok", j, e.add, e.looked)
            ELSE TryCandidatesSkipOne(d, a, releases, j + 1, local_mod, top,
                                      e.looked)

\* the loop over releases (install.py:72-139) from releases[j] on
RECURSIVE TryCandidates(_, _, _, _, _, _, _)
TryCandidates(d, a, releases, j, local_mod, top, looked) ==
    IF j > Len(releases) THEN Outcome("nodeps", 0, <<>>, looked)
    ELSE IF StopsEqual(a, releases[j], local_mod)
    THEN Outcome("installed", 0, <<>>, looked)
    ELSE IF StopsOlder(a, releases[j], local_mod)
    THEN Outcome("newer", 0, <<>>, looked)
    ELSE LET deps == IF a.no_deps THEN <<>> ELSE releases[j].dependencies
             e == ExpandDeps(d, deps, 1, top,
                             [ok |-> TRUE, add |-> <<>>, looked |-> looked])
         IN IF e.ok THEN Outcome("ok", j, e.add, e.looked)
            ELSE TryCandidates(d, a, releases, j + 1, local_mod, top,
                               e.looked)

\* not args.held and req.name in self.config.hold
IsHeld(a, req) == ~a.held /\ req.name \in hold

\* one turn of the loop over args.requirement (install.py:52-139), given the
\* mod get_mod(req.name) returns
ResolveReq(d, a, req, local_mod, top) ==
    IF req.name \notin CatalogNames THEN Outcome("notfound", 0, <<>>, {})
    ELSE IF IsHeld(a, req) THEN Outcome("held", 0, <<>>, {})
    ELSE IF ResolveRemote(req) = <<>> THEN Outcome("nomatch", 0, <<>>, {})
    ELSE TryCandidates(d, a, ResolveRemote(req), 1, local_mod, top, {})

\* a mutant of Planned: a requirement that fails empties the install list
PlannedDropsOnFailure(plan, req, o, top) ==
    IF o.why = "ok"
    THEN plan \o o.add
              \o <<Entry(ResolveRemote(req)[o.chosen], req, "top", top)>>
    ELSE <<>>

\* a mutant of Planned: the candidate is put before its dependencies
PlannedCandidateFirst(plan, req, o, top) ==
    IF o.why = "ok"
    THEN plan \o <<Entry(ResolveRemote(req)[o.chosen], req, "top", top)>>
              \o o.add
    ELSE plan

\* to_install += deps_to_install; to_install.append(release)
Planned(plan, req, o, top) ==
    IF o.why = "ok"
    THEN plan \o o.add
              \o <<Entry(ResolveRemote(req)[o.chosen], req, "top", top)>>
    ELSE plan

\* the requirements of the command line
ReqPool == {Req(FOO, "any", 0), Req(FOO, "==", 1), Req(FOO, ">=", 3),
            Req(FOO_BAR, "any", 0), Req(LIB, ">=", 3), Req(GHOST, "any", 0)}

ReqLists == UNION {[1..n -> ReqPool] : n \in 1..MaxReqs}

ArgSets == [held : BOOLEAN, reinstall : BOOLEAN, downgrade : BOOLEAN,
            no_deps : BOOLEAN, unpack : {"None", "True"}]

\* the mods the directory holds when the command starts
RunPool == {Mod(FOO, 1, TRUE), Mod(FOO, 3, FALSE), Mod(LIB, 2, FALSE),
            Mod(LIB, 3, TRUE)}

RunStartDisks == {d \in SUBSET RunPool : Cardinality(d) <= MaxStart
                                          /\ NoDuplicate(d)}

InitRun ==
    /\ disk \in RunStartDisks
    /\ disk0 = disk
    /\ fromEmpty = (disk = {})
    /\ mods_json = NoEntries
    /\ saved_json = NoEntries
    /\ last = NoCall
    /\ args \in ArgSets
    /\ reqs \in ReqLists
    /\ pc = "resolve"
    /\ req_i = 1
    /\ to_install = <<>>
    /\ inst_i = 1
    /\ lookups = {}
    /\ trace = <<>>

\* the body of "for req in args.requirement" for reqs[req_i]
ResolveStep ==
    /\ pc = "resolve"
    /\ \E local_mod \in GetMod(disk, reqs[req_i].name) :
         LET o == ResolveReq(disk, args, reqs[req_i], local_mod, req_i)
             plan == Planned(to_install, reqs[req_i], o, req_i)
         IN /\ to_install' = plan
            /\ trace' = Append(trace, [why |-> o.why, chosen |-> o.chosen,
                                       local |-> local_mod])
            /\ lookups' = lookups \cup {[top |-> req_i, name |-> q.name,
                                           req |-> q] : q \in o.looked}
            /\ req_i' = req_i + 1
            /\ pc' = IF req_i < Len(reqs) THEN "resolve"
                     ELSE IF plan = <<>> THEN "done" ELSE "install"
    /\ UNCHANGED <<disk, mods_json, saved_json, last, fromEmpty, args, reqs,
                   inst_i, disk0>>

\* a mutant of InstallStep: a planned release is installed while requirements
\* are still to be resolved
InstallStepEarly ==
    /\ pc \in {"install", "resolve"}
    /\ inst_i <= Len(to_install)
    /\ LET release == to_install[inst_i].release
       IN \E received \in {release.file_size, release.file_size - 1},
             installed_mod \in InstalledModChoices(disk, release.name) :
            LET r == InstallMod(disk, mods_json, saved_json, release, "None",
                                args.unpack, received, installed_mod)
            IN /\ disk' = r.disk
               /\ mods_json' = r.mods_json
               /\ saved_json' = r.saved_json
               /\ last' = [op |-> "install", ok |-> r.ok, why |-> r.why,
                           name |-> release.name,
                           version |-> release.version,
                           unpack |-> args.unpack,
                           prior |-> Layout(installed_mod),
                           size_ok |-> received = release.file_size,
                           value |-> FALSE, changed |-> FALSE]
               /\ inst_i' = IF r.ok THEN inst_i + 1 ELSE inst_i
               /\ pc' = IF ~r.ok THEN "aborted"
                        ELSE IF pc = "resolve" THEN "resolve"
                        ELSE IF inst_i < Len(to_install) THEN "install"
                        ELSE "done"
    /\ UNCHANGED <<fromEmpty, args, reqs, req_i, to_install, disk0, lookups,
                   trace>>

\* one turn of "for release in to_install": install_mod(release,
\* unpack=args.unpack); an exception it raises ends the command
InstallStep ==
    /\ pc = "install"
    /\ LET release == to_install[inst_i].release
       IN \E received \in {release.file_size, release.file_size - 1},
             installed_mod \in InstalledModChoices(disk, release.name) :
            LET r == InstallMod(disk, mods_json, saved_json, release, "None",
                                args.unpack, received, installed_mod)
            IN /\ disk' = r.disk
               /\ mods_json' = r.mods_json
               /\ saved_json' = r.saved_json
               /\ last' = [op |-> "install", ok |-> r.ok, why |-> r.why,
                           name |-> release.name,
                           version |-> release.version,
                           unpack |-> args.unpack,
                           prior |-> Layout(installed_mod),
                           size_ok |-> received = release.file_size,
                       value |-> FALSE, changed |-> FALSE]
               /\ inst_i' = IF r.ok THEN inst_i + 1 ELSE inst_i
               /\ pc' = IF ~r.ok THEN "aborted"
                        ELSE IF inst_i < Len(to_install) THEN "install"
                        ELSE "done"
    /\ UNCHANGED <<fromEmpty, args, reqs, req_i, to_install, disk0, lookups,
                   trace>>

NextRun == ResolveStep \/ InstallStep

SpecRun == InitRun /\ [][NextRun]_vars

(***************************************************************************)
(* Claims about the operations on the mods directory, checked under Spec.  *)
(***************************************************************************)
ModsNamed(d, name) == {m \in d : m.name = name}

\* C1: starting from a directory without a (name, version) pair that is both
\* packed and unpacked, after any sequence of install, uninstall, pack and
\* unpack calls that returned, no pair is both packed and unpacked.
C1_NoPackedAndUnpackedPair == last.ok => NoDuplicate(disk)

\* C2: starting from an empty directory, when install_mod(release) returns,
\* the directory holds exactly one mod named as the release, and it has the
\* release's version.
C2_OneCopyPerName ==
    (fromEmpty /\ last.op = "install" /\ last.ok) =>
        \E m \in disk : /\ ModsNamed(disk, last.name) = {m}
                        /\ m.version = last.version

\* C10: a call of install_mod whose download has not the declared file_size
\* fails and leaves the mods directory and the enable manifest as they were.
C10_SizeMismatchChangesNothing ==
    [][(last'.op = "install" /\ ~last'.size_ok) =>
          /\ ~last'.ok
          /\ disk' = disk
          /\ mods_json' = mods_json
          /\ saved_json' = saved_json]_vars

\* C10's case: install_mod failed on the size over a mod it would replace
C10_Witness ==
    /\ last.op = "install" /\ ~last.size_ok /\ ~last.ok
    /\ last.prior # "none"
    /\ Mod(last.name, last.version, TRUE) \notin disk

(***************************************************************************)
(* Claims about InstallCommand.run, checked under SpecRun.                 *)
(***************************************************************************)
\* what a specifier means, stated apart from the model's InSpec
Satisfies(ver, req) ==
    \/ req.op = "any"
    \/ req.op = "==" /\ ver = req.ver
    \/ req.op = ">=" /\ ~(ver < req.ver)
    \/ req.op = "<" /\ ver < req.ver

PlanIdx == 1..Len(to_install)

\* the elements of to_install install_mod was called with
PassedIdx == {i \in PlanIdx : i < inst_i \/ (i = inst_i /\ pc = "aborted")}

\* the elements of to_install install_mod installed
InstalledIdx == {i \in PlanIdx : i < inst_i}

\* C3: every release the run passes to install_mod, a requirement's chosen
\* candidate or a dependency, has the configured game_version_major and a
\* version in the specifier of the requirement that selected it.
C3_EligibleReleasesOnly ==
    \A i \in PlanIdx :
        /\ to_install[i].release.game_version = game_version_major
        /\ Satisfies(to_install[i].release.version, to_install[i].req)
        /\ to_install[i].release.name = to_install[i].req.name

\* C3's case: a dependency and a candidate were passed to install_mod, each
\* of a mod with a release of another game version that the specifier admits
C3_Witness ==
    /\ pc = "done"
    /\ \A k \in {"dep", "top"} : \E i \in PassedIdx :
         /\ to_install[i].kind = k
         /\ \E r \in Range(Catalog(to_install[i].release.name)) :
              /\ Satisfies(r.version, to_install[i].req)
              /\ r.game_version # game_version_major

\* C4: without --held no release of a mod in the hold set is installed,
\* named by a requirement or pulled in as a dependency.
C4_HeldNeverInstalled ==
    ~args.held => \A i \in InstalledIdx :
                      to_install[i].release.name \notin hold

\* C5: without --reinstall, when a local mod of the required name exists as
\* the requirement is resolved, no candidate of that local mod's version is
\* planned for the requirement (so none is downloaded or written).
C5_NoReinstallOfLocalVersion ==
    ~args.reinstall =>
        \A i \in PlanIdx : to_install[i].kind = "top" =>
            \A m \in ModsNamed(disk0, to_install[i].release.name) :
                to_install[i].release.version # m.version

\* C5 for the one local mod get_mod returned, which is what the version
\* checks compare with: no candidate of its version is planned, and a
\* requirement stopped as "already installed" plans nothing.
C5_EqualVersionNotInstalled ==
    \A k \in 1..Len(trace) :
        /\ (~args.reinstall /\ trace[k].local # NoMod) =>
              \A i \in PlanIdx :
                  (to_install[i].top = k /\ to_install[i].kind = "top") =>
                      to_install[i].release.version # trace[k].local.version
        /\ trace[k].why = "installed" =>
              /\ ~args.reinstall
              /\ \A i \in PlanIdx : to_install[i].top # k
              /\ (Len(reqs) = 1 => disk = disk0 /\ pc \in {"resolve", "done"})

\* C5's case: the only requirement met a candidate of the local version
C5_Witness ==
    /\ pc = "done" /\ Len(reqs) = 1 /\ Len(trace) = 1
    /\ trace[1].why = "installed"
    /\ trace[1].local \in disk
    /\ \E r \in Range(ResolveRemote(reqs[1])) :
           r.version = trace[1].local.version

\* C6: without --downgrade no release is installed that is older than a
\* local mod of its name that was there when the run started.
C6_NoDowngrade ==
    ~args.downgrade =>
        \A i \in InstalledIdx : \A m \in ModsNamed(disk0, to_install[i].release.name) :
            ~(to_install[i].release.version < m.version)

\* a dependency requirement that counts: not optional, not base
RealDeps(release) ==
    {dep \in Range(release.dependencies) : ~dep.optional /\ dep.name # BASE}

\* C7: without --no-deps every release of the plan has each of its
\* non-optional, non-base dependencies met by a local mod or by a release
\* of the plan.
C7_DependencyComplete ==
    ~args.no_deps =>
        \A i \in PlanIdx : \A dep \in RealDeps(to_install[i].release) :
            \/ ResolveLocal(disk0, dep) # {}
            \/ \E j \in PlanIdx :
                  /\ to_install[j].release.name = dep.name
                  /\ Satisfies(to_install[j].release.version, dep)

\* whether one dependency of a candidate resolves: base against the game
\* version, another mod locally or by a catalog release
DepResolves(dep) ==
    IF dep.name = BASE THEN Satisfies(game_version, dep)
    ELSE \/ ResolveLocal(disk0, dep) # {}
         \/ \E r \in Range(Catalog(dep.name)) :
               /\ Satisfies(r.version, dep)
               /\ r.game_version = game_version_major

DepsResolve(release) ==
    args.no_deps \/ \A dep \in Range(release.dependencies) :
                        dep.optional \/ DepResolves(dep)

TopsOf(k) == {i \in PlanIdx : to_install[i].top = k /\ to_install[i].kind = "top"}

\* C8: for a requirement the local-version checks did not stop, the
\* candidate planned is the first in catalog order whose dependencies all
\* resolve; the candidates before it were abandoned, none after it is
\* planned, and at most one candidate is planned.
C8_FirstResolvableCandidate ==
    \A k \in 1..Len(trace) :
        LET rels == ResolveRemote(reqs[k])
            c == trace[k].chosen
        IN /\ trace[k].why = "ok" =>
                /\ c \in 1..Len(rels)
                /\ DepsResolve(rels[c])
                /\ \A j \in 1..(c - 1) : ~DepsResolve(rels[j])
                /\ \E i \in PlanIdx : TopsOf(k) = {i}
                                      /\ to_install[i].release = rels[c]
           /\ trace[k].why = "nodeps" =>
                /\ \A j \in 1..Len(rels) : ~DepsResolve(rels[j])
                /\ TopsOf(k) = {}
           /\ Cardinality(TopsOf(k)) <= 1

\* C8's case: the first candidate was abandoned and the second installed
C8_Witness ==
    /\ pc = "done"
    /\ \E k \in 1..Len(trace) :
         /\ trace[k].why = "ok" /\ trace[k].chosen = 2
         /\ Len(ResolveRemote(reqs[k])) >= 3
         /\ \E i \in InstalledIdx : TopsOf(k) = {i}

BaseDeps(release) ==
    {dep \in Range(release.dependencies) : ~dep.optional /\ dep.name = BASE}

\* C9: a dependency named base causes no catalog lookup and adds no release
\* to the plan; a candidate with it is planned only when the game version
\* is in its specifier, and a candidate with only base dependencies is
\* abandoned only when it is not.
C9_BaseCheckedAgainstGameVersion ==
    /\ \A l \in lookups : l.name # BASE
    /\ \A i \in PlanIdx : to_install[i].kind = "dep" =>
                              to_install[i].release.name # BASE
    /\ ~args.no_deps =>
         \A k \in 1..Len(trace) :
            LET rels == ResolveRemote(reqs[k])
                c == trace[k].chosen
            IN /\ trace[k].why = "ok" =>
                    /\ \A dep \in BaseDeps(rels[c]) :
                           Satisfies(game_version, dep)
                    /\ \A j \in 1..(c - 1) : RealDeps(rels[j]) = {} =>
                           \E dep \in BaseDeps(rels[j]) :
                               ~Satisfies(game_version, dep)

\* C9's case: one candidate was abandoned for its base dependency and one
\* with a base dependency the game version meets was installed
C9_Witness ==
    /\ pc = "done"
    /\ \E k \in 1..Len(trace) :
         /\ trace[k].why = "ok" /\ trace[k].chosen > 1
         /\ \E dep \in BaseDeps(ResolveRemote(reqs[k])[1]) :
                ~Satisfies(game_version, dep)
    /\ \E i \in InstalledIdx :
         /\ to_install[i].kind = "top"
         /\ BaseDeps(to_install[i].release) # {}

\* C13: set_mod_enabled(name, value) with value equal to the effective
\* enabled state of name (an absent name is enabled) returns False and
\* leaves the manifest, in memory and on file, as it was; with another value
\* it saves the manifest with the new state and returns True.
C13_SetEnabledNoOpWhenEqual ==
    [][last'.op = "enable" =>
          IF last'.value = IsModEnabled(mods_json, last'.name)
          THEN /\ last'.ok /\ ~last'.changed
               /\ mods_json' = mods_json
               /\ saved_json' = saved_json
          ELSE /\ last'.ok /\ last'.changed
               /\ IsModEnabled(mods_json', last'.name) = last'.value
               /\ saved_json' = mods_json']_vars

\* C14: when install_mod(release) is called without unpack and returns, the
\* installed mod is unpacked if the local copies of that mod before the call
\* were unpacked, and packed if there was none or they were packed.
C14_UnpackFollowsPriorCopy ==
    [][(last'.op = "install" /\ last'.ok /\ last'.unpack = "None") =>
          LET prior == ModsNamed(disk, last'.name)
              zip == Mod(last'.name, last'.version, TRUE)
              dir == Mod(last'.name, last'.version, FALSE)
          IN /\ (prior # {} /\ \A m \in prior : ~m.packed) =>
                    (dir \in disk' /\ zip \notin disk')
             /\ (\A m \in prior : m.packed) =>
                    (zip \in disk' /\ dir \notin disk')]_vars

\* C15: unpack() of a zipped mod whose directory exists, and pack() of an
\* unpacked mod whose archive exists, fail and leave the mods directory as
\* it was, the mod and the existing destination both in place.
C15_ExistingDestinationFails ==
    [][(\/ /\ last'.op = "unpack"
           /\ Mod(last'.name, last'.version, FALSE) \in disk
        \/ /\ last'.op = "pack"
           /\ Mod(last'.name, last'.version, TRUE) \in disk) =>
          /\ ~last'.ok
          /\ disk' = disk
          /\ Mod(last'.name, last'.version, TRUE) \in disk'
          /\ Mod(last'.name, last'.version, FALSE) \in disk']_vars

\* C15's case: unpack() was called on a zipped mod beside its directory
C15_Witness ==
    /\ last.op = "unpack" /\ ~last.ok
    /\ Mod(last.name, last.version, TRUE) \in disk
    /\ Mod(last.name, last.version, FALSE) \in disk

\* the same for pack(), called on an unpacked mod beside its archive
C15_WitnessPack ==
    /\ last.op = "pack" /\ ~last.ok
    /\ Mod(last.name, last.version, TRUE) \in disk
    /\ Mod(last.name, last.version, FALSE) \in disk

\* C16: uninstall_mods(name, version) removes every mod named name (of that
\* version when one is given) and leaves every mod of another name, also one
\* whose name begins with name and an underscore.
C16_UninstallRemovesOnlyName ==
    [][last'.op = "uninstall" =>
          disk' = {m \in disk :
                     ~(/\ m.name = last'.name
                       /\ last'.version \in {NoVersion, m.version})}]_vars

(***************************************************************************)
(* Failures during a run.                                                  *)
(***************************************************************************)
\* the elements of to_install planned for requirements after reqs[k]
LaterIdx(k) == {i \in PlanIdx : to_install[i].top > k}

\* C11: when install_mod fails on a planned release, only the requirement
\* that release was planned for is given up: the releases planned for the
\* later requirements are still passed to install_mod, so the run does not
\* end with such a release left uninstalled.
C11_FailureAbortsOneRequirement ==
    pc = "aborted" =>
        \A i \in LaterIdx(to_install[inst_i].top) : i \in PassedIdx

ResolutionFailures == {"notfound", "held", "nomatch", "nodeps"}

\* the releases of a plan, in order
Releases(plan) == [i \in 1..Len(plan) |-> plan[i].release]

\* the plan of a run given only the requirements rs[i..], each resolved
\* against the directory the run started with and the local mod get_mod
\* returned for it
RECURSIVE PlanOf(_, _, _)
PlanOf(rs, locals, i) ==
    IF i > Len(rs) THEN <<>>
    ELSE LET o == ResolveReq(disk0, args, rs[i], locals[i], i)
         IN Releases(Planned(<<>>, rs[i], o, i)) \o PlanOf(rs, locals, i + 1)

\* the indexes of the requirements resolved so far that did not fail
RECURSIVE Succeeded(_)
Succeeded(k) ==
    IF k = 0 THEN <<>>
    ELSE IF trace[k].why \in ResolutionFailures THEN Succeeded(k - 1)
    ELSE Append(Succeeded(k - 1), k)

\* C12: a requirement that fails in resolution (not found, held, no match,
\* no candidate with resolvable dependencies) adds nothing to to_install
\* and does not stop the run: the requirements after it are resolved, and
\* to_install is what the run plans without the failed requirements.
C12_ResolutionFailureSkipsRequirement ==
    /\ pc # "resolve" => Len(trace) = Len(reqs)
    /\ \A k \in 1..Len(trace) :
          trace[k].why \in ResolutionFailures =>
              \A i \in PlanIdx : to_install[i].top # k
    /\ LET ks == Succeeded(Len(trace))
       IN Releases(to_install) =
              PlanOf([n \in 1..Len(ks) |-> reqs[ks[n]]],
                     [n \in 1..Len(ks) |-> trace[ks[n]].local], 1)

\* C12's case: the first requirement found no candidate with resolvable
\* dependencies, the second was planned and installed
C12_Witness ==
    /\ pc = "done" /\ Len(trace) = 2
    /\ trace[1].why = "nodeps" /\ trace[2].why = "ok"
    /\ InstalledIdx = PlanIdx /\ PlanIdx # {}

(***************************************************************************)
(* The order of installation.                                              *)
(***************************************************************************)
\* the releases collected for the dependencies release.dependencies[i..] of
\* a candidate whose dependencies all resolve: the first eligible release of
\* each dependency that is neither optional, nor base, nor met locally
RECURSIVE NeededDeps(_, _)
NeededDeps(release, i) ==
    IF args.no_deps \/ i > Len(release.dependencies) THEN <<>>
    ELSE LET dep == release.dependencies[i]
         IN IF dep.optional \/ dep.name = BASE \/ ResolveLocal(disk0, dep) # {}
            THEN NeededDeps(release, i + 1)
            ELSE <<ResolveRemote(dep)[1]>> \o NeededDeps(release, i + 1)

\* the group of requirement k: nothing when it was not resolved, else the
\* dependency releases of the chosen candidate and then the candidate
Group(k) ==
    IF trace[k].why # "ok" THEN <<>>
    ELSE LET c == ResolveRemote(reqs[k])[trace[k].chosen]
         IN NeededDeps(c, 1) \o <<c>>

RECURSIVE Groups(_)
Groups(k) == IF k = 0 THEN <<>> ELSE Groups(k - 1) \o Group(k)

\* C17: the releases the run installs are, in the order of the requirements,
\* one group per resolved requirement, each group the dependency releases
\* collected for the chosen candidate followed by the candidate; install_mod
\* is called on them in that order.
C17_InstallOrder ==
    /\ Releases(to_install) = Groups(Len(trace))
    /\ (last.op = "install" /\ last.ok) =>
           /\ inst_i - 1 \in PlanIdx
           /\ last.name = to_install[inst_i - 1].release.name
           /\ last.version = to_install[inst_i - 1].release.version
    /\ \A i \in PlanIdx : to_install[i].kind = "dep" =>
           \E j \in PlanIdx : /\ j > i /\ to_install[j].kind = "top"
                              /\ to_install[j].top = to_install[i].top
                              /\ to_install[i].req \in
                                     Range(to_install[j].release.dependencies)

\* C17's case: two requirements were resolved, one after its first candidate
\* was abandoned with a dependency collected, and both groups, each with a
\* dependency, were installed
C17_Witness ==
    /\ pc = "done" /\ Len(trace) = 2
    /\ trace[1].why = "ok" /\ trace[2].why = "ok"
    /\ \E k \in 1..2 :
         /\ trace[k].chosen = 2
         /\ LET dep == ResolveRemote(reqs[k])[1].dependencies[1]
            IN /\ ~dep.optional /\ dep.name # BASE
               /\ ResolveLocal(disk0, dep) = {}
               /\ dep.name \in CatalogNames
               /\ ResolveRemote(dep) # <<>>
    /\ InstalledIdx = PlanIdx
    /\ \A k \in 1..2 : \E i \in PlanIdx : /\ to_install[i].top = k
                                          /\ to_install[i].kind = "dep"

(***************************************************************************)
(* The dependencies of a candidate.                                        *)
(***************************************************************************)
\* a local mod has the dependency's name, a version in its specifier and
\* the configured game version
LocallyMet(dep) ==
    \E m \in disk0 : /\ m.name = dep.name
                     /\ Satisfies(m.version, dep)
                     /\ InfoFactorioVersion(m) = game_version_major

\* the catalog's releases for a dependency, in catalog order
Eligible(dep) ==
    SelectSeq(Catalog(dep.name),
              LAMBDA r : Satisfies(r.version, dep)
                         /\ r.game_version = game_version_major)

DepIdx(k) == {i \in PlanIdx : to_install[i].top = k /\ to_install[i].kind = "dep"}

\* C18: for a non-optional, non-base dependency of a candidate: when a local
\* mod meets its specifier and the game version the catalog is not asked and
\* no release is planned for it; otherwise the first release the catalog
\* yields for it is planned, once, and a candidate with a dependency the
\* catalog does not know or has no release for is not chosen.
C18_DependencyLocalThenFirstRemote ==
    /\ \A l \in lookups : /\ ~args.no_deps
                          /\ ~l.req.optional /\ l.name # BASE
                          /\ ~LocallyMet(l.req)
    /\ \A k \in 1..Len(trace) :
         /\ trace[k].why # "ok" => DepIdx(k) = {}
         /\ trace[k].why = "ok" =>
              LET c == ResolveRemote(reqs[k])[trace[k].chosen]
                  deps == IF args.no_deps THEN {} ELSE RealDeps(c)
              IN /\ \A i \in DepIdx(k) : to_install[i].req \in deps
                 /\ \A dep \in deps :
                      LET planned == {i \in DepIdx(k) : to_install[i].req = dep}
                          asked == [top |-> k, name |-> dep.name, req |-> dep]
                      IN IF LocallyMet(dep)
                         THEN planned = {} /\ asked \notin lookups
                         ELSE /\ asked \in lookups
                              /\ Eligible(dep) # <<>>
                              /\ Cardinality(planned) = 1
                              /\ \A i \in planned :
                                   to_install[i].release = Eligible(dep)[1]

\* C18's case: one candidate was given up for a dependency met locally in
\* version but not in game version and without a catalog release, the next
\* was chosen with its dependency met locally, and another requirement had
\* the first of several catalog releases of its dependency installed
C18_Witness ==
    /\ pc = "done" /\ ~args.no_deps
    /\ \E k \in 1..Len(trace) :
         /\ trace[k].why = "ok" /\ trace[k].chosen > 1
         /\ \E dep \in RealDeps(ResolveRemote(reqs[k])[1]) :
              /\ \E m \in disk0 : m.name = dep.name /\ Satisfies(m.version, dep)
              /\ ~LocallyMet(dep) /\ Eligible(dep) = <<>>
         /\ \E dep \in RealDeps(ResolveRemote(reqs[k])[trace[k].chosen]) :
              LocallyMet(dep)
         /\ DepIdx(k) = {}
    /\ \E i \in InstalledIdx :
         /\ to_install[i].kind = "dep"
         /\ Len(Eligible(to_install[i].req)) >= 2

(***************************************************************************)
(* Candidates of the local version, or older.                              *)
(***************************************************************************)
\* the requirements whose candidates were gone through
Tried(k) == trace[k].why \in {"ok", "installed", "newer", "nodeps"}

\* candidate j of requirement k has the version of the local mod get_mod
\* returned (without --reinstall) or an older one (without --downgrade)
Skipped(k, j) ==
    LET r == ResolveRemote(reqs[k])[j]
        loc == trace[k].local
    IN /\ loc # NoMod
       /\ \/ ~args.reinstall /\ r.version = loc.version
          \/ ~args.downgrade /\ r.version < loc.version

\* C19: a candidate of the local version (without --reinstall) or an older
\* one (without --downgrade) is passed over alone: a requirement that has a
\* candidate which is not passed over and whose dependencies resolve gets a
\* candidate planned.
C19_SkipOnlyThatCandidate ==
    \A k \in 1..Len(trace) :
        (/\ Tried(k)
         /\ \E j \in 1..Len(ResolveRemote(reqs[k])) :
              ~Skipped(k, j) /\ DepsResolve(ResolveRemote(reqs[k])[j])) =>
            TopsOf(k) # {}

\* C19, as the code has it: the first candidate of the local version
\* (without --reinstall) or older (without --downgrade) that is reached ends
\* the requirement: nothing is planned for it, whatever follows in the
\* catalog, and a candidate is planned only if none up to it is such.
C19_SkipStopsRequirement ==
    \A k \in 1..Len(trace) : Tried(k) =>
        LET rels == ResolveRemote(reqs[k])
            Reached(j) == \A i \in 1..(j - 1) :
                             ~Skipped(k, i) /\ ~DepsResolve(rels[i])
        IN /\ \A j \in 1..Len(rels) : (Skipped(k, j) /\ Reached(j)) =>
                 /\ trace[k].why = (IF rels[j].version = trace[k].local.version
                                    THEN "installed" ELSE "newer")
                 /\ TopsOf(k) = {} /\ DepIdx(k) = {}
           /\ trace[k].why \in {"installed", "newer"} =>
                 \E j \in 1..Len(rels) : Skipped(k, j) /\ Reached(j)
           /\ trace[k].why = "ok" =>
                 \A j \in 1..trace[k].chosen : ~Skipped(k, j)

\* C19's case: with --downgrade and without --reinstall the candidate of the
\* local version ended a requirement that has an older candidate with
\* resolvable dependencies after it; nothing was installed
C19_Witness ==
    /\ pc = "done" /\ args.downgrade /\ ~args.reinstall
    /\ Len(trace) = 1 /\ trace[1].why = "installed"
    /\ \E j \in 1..Len(ResolveRemote(reqs[1])) :
         /\ ResolveRemote(reqs[1])[j].version < trace[1].local.version
         /\ DepsResolve(ResolveRemote(reqs[1])[j])
    /\ to_install = <<>> /\ disk = disk0

(***************************************************************************)
(* The two phases of a run.                                                *)
(***************************************************************************)
\* the elements of to_install planned for the requirements before reqs[k]
EarlierPlanned(k) == {i \in PlanIdx : to_install[i].top < k}

\* C20: until every requirement of the run is resolved install_mod is not
\* called and the mods directory and the manifest are as the run found
\* them; every requirement and dependency is resolved against that state.
C20_ResolveBeforeInstall ==
    /\ (pc = "resolve" \/ Len(trace) < Len(reqs)) =>
          /\ disk = disk0
          /\ mods_json = NoEntries /\ saved_json = NoEntries
          /\ last = NoCall /\ inst_i = 1
    /\ last.op = "install" => Len(trace) = Len(reqs)
    /\ \A k \in 1..Len(trace) :
          /\ trace[k].local \in GetMod(disk0, reqs[k].name)
          /\ LET o == ResolveReq(disk0, args, reqs[k], trace[k].local, k)
             IN /\ trace[k].why = o.why /\ trace[k].chosen = o.chosen
                /\ [i \in 1..Cardinality(DepIdx(k) \cup TopsOf(k)) |->
                      to_install[i + Cardinality(EarlierPlanned(k))]]
                   = Planned(<<>>, reqs[k], o, k)

\* C20's case: two requirements were resolved and installed, and the second,
\* resolved against the directory the first's installation left, would have
\* come out otherwise
C20_Witness ==
    /\ pc = "done" /\ Len(trace) = 2
    /\ trace[1].why = "ok" /\ trace[2].why = "ok"
    /\ InstalledIdx = PlanIdx /\ disk # disk0
    /\ \A loc \in GetMod(disk, reqs[2].name) :
          ResolveReq(disk, args, reqs[2], loc, 2).why # "ok"

====
